---- MODULE Spec2Model ----
(***************************************************************************)
(* A model of animation.py: intensity_to_color and the script              *)
(* StarFieldAnimation.construct, which loads star records, normalises      *)
(* them, builds one visual per star and plays nine animation stages on     *)
(* the rendering engine.                                                   *)
(*                                                                         *)
(* Numbers.  The script computes with floats; the model computes the same  *)
(* quantities exactly, as integer numerators over a fixed denominator:     *)
(*   - an intensity passed to intensity_to_color is carried in quarter     *)
(*     units (q = 4 * intensity), so that the breakpoints 0.30, 0.60 and   *)
(*     0.85 of t = intensity / 255 are the values q = 306, 612 and 867;    *)
(*   - a colour is the vector of the weights of the control colours in     *)
(*     the interpolation, in 1530ths (1530 = lcm(306, 255, 153));          *)
(*   - an opacity is a numerator over 2550, a radius one over 25500;       *)
(*   - a normalised coordinate is a fraction [n, d] with d > 0.            *)
(* Floating-point rounding is not modelled.  At the integer intensities    *)
(* where a comparison of the script is an equality in exact arithmetic     *)
(* (153 for t < 0.6, 170 for brightness > 0.8) the floats decide as the    *)
(* exact values do.                                                        *)
(*                                                                         *)
(* Indices.  Python's 0-based positions i are the model's i + 1.           *)
(***************************************************************************)
EXTENDS Integers, Sequences, FiniteSets, TLC

VARIABLES
    pc,               \* the statement of construct() to run next
    error,            \* the exception that ended construct(), "" if none
    file_kind,        \* star_positions.json: "missing", "unparsable", "nostars", "list"
    file_malformed,   \* whether the file is unparsable, has no 'stars' or a record lacks a field
    data,             \* data['stars'] as loaded (lines 28-34); dead after line 36
    chosen,           \* the positions np.random.choice returned (line 33)
    stars,            \* the records used for rendering
    scale_x, scale_y, \* the normalisation factors, fractions
    target_opacities, \* per star, numerator over 2550
    star_objects,     \* per star: its visual
    rot,              \* rotation applied to star_objects so far, in eighths of a turn
    sorted_indices,   \* np.argsort(distances)
    i,                \* the loop counter of the reveal loop (line 132)
    bright_stars,     \* stage 5: positions (in stars) of the records to connect
    lines,            \* stage 5: the line visuals
    stats,            \* stage 6: the values shown in the panel
    scene,            \* the engine's scene: the visuals it currently holds
    log,              \* the calls made on the engine, in order
    probe,            \* the argument of a direct call of intensity_to_color (4 * intensity)
    shade             \* the results of the direct calls of intensity_to_color

vars == <<pc, error, file_kind, file_malformed, data, chosen, stars, scale_x,
          scale_y, target_opacities, star_objects, rot, sorted_indices, i,
          bright_stars, lines, stats, scene, log, probe, shade>>

(***************************************************************************)
(* Bounds of the model.  The script's cap of 5000 records and its 200      *)
(* synthetic records are far beyond what can be enumerated: the model      *)
(* runs the same code with both scaled down.  SyntheticCount stays above   *)
(* num_groups and reaches the 8 records of the constellation stage, as     *)
(* 200 does.                                                               *)
(***************************************************************************)
\* stands for the 5000 of lines 32-33
SubsampleCap == 3

\* stands for the 200 of line 40
SyntheticCount == 8

(***************************************************************************)
(* Constants of the script.                                                *)
(***************************************************************************)
MaxIntensity == 255
num_groups == 6
ConstellationSize == 8
FlashLimit == 12
FlashThreshold == 200
HalfExtentX == 4
HalfExtentY == 2

(***************************************************************************)
(* Helpers.                                                                *)
(***************************************************************************)
Abs(n) == IF n < 0 THEN -n ELSE n
Min(a, b) == IF a < b THEN a ELSE b
Max(a, b) == IF a > b THEN a ELSE b
SetMax(S) == CHOOSE m \in S : \A k \in S : k <= m
SetMin(S) == CHOOSE m \in S : \A k \in S : m <= k
Range(s) == { s[k] : k \in DOMAIN s }
Injective(s) == \A a, b \in DOMAIN s : s[a] = s[b] => a = b
SubSeqFromTo(s, a, b) == [k \in 1..(IF b >= a THEN b - a + 1 ELSE 0) |-> s[a + k - 1]]
\* Python's s[start:end] for 0 <= start, with both ends clipped to len(s)
Slice(s, start, end) == SubSeqFromTo(s, Min(start, Len(s)) + 1, Min(end, Len(s)))

RECURSIVE SeqSum(_)
SeqSum(s) == IF s = <<>> THEN 0 ELSE Head(s) + SeqSum(Tail(s))

(***************************************************************************)
(* intensity_to_color (lines 5-20).                                        *)
(***************************************************************************)
ControlColors == {"RED", "ORANGE", "YELLOW", "WHITE", "BLUE"}

\* interpolate_color(a, b, n / d): (1 - n/d) * a + (n/d) * b, weights in 1530ths
interpolate_color(a, b, n, d) ==
    [c \in ControlColors |->
        (IF c = a THEN ((d - n) * 1530) \div d ELSE 0)
      + (IF c = b THEN (n * 1530) \div d ELSE 0)]

\* line 12: t = min(1.0, max(0.0, intensity / 255.0)), as 1020 * t
Clamp(q) == Min(4 * MaxIntensity, Max(0, q))

\* lines 13-20: the segment the if-chain selects, 1..4
Segment(q) ==
    LET t == Clamp(q)
    IN  IF 10 * t < 3 * 4 * MaxIntensity THEN 1
        ELSE IF 10 * t < 6 * 4 * MaxIntensity THEN 2
        ELSE IF 100 * t < 85 * 4 * MaxIntensity THEN 3
        ELSE 4

\* the two control colours of a segment
SegmentColors(s) ==
    CASE s = 1 -> <<"RED", "ORANGE">>
      [] s = 2 -> <<"ORANGE", "YELLOW">>
      [] s = 3 -> <<"YELLOW", "WHITE">>
      [] OTHER -> <<"WHITE", "BLUE">>

\* SegmentParam with the offset of the second segment forgotten: t / 0.3
SegmentParamUnshifted(s, t) ==
    CASE s = 1 -> <<t, 306>>
      [] s = 2 -> <<t, 306>>
      [] s = 3 -> <<t - 612, 255>>
      [] OTHER -> <<t - 867, 153>>

\* the interpolation parameter of segment s at 1020 * t = q, as <<n, d>>:
\* t / 0.3, (t - 0.3) / 0.3, (t - 0.6) / 0.25, (t - 0.85) / 0.15
SegmentParam(s, t) ==
    CASE s = 1 -> <<t, 306>>
      [] s = 2 -> <<t - 306, 306>>
      [] s = 3 -> <<t - 612, 255>>
      [] OTHER -> <<t - 867, 153>>

intensity_to_color(q) ==
    LET t == Clamp(q)
        s == Segment(q)
        p == SegmentParam(s, t)
    IN  interpolate_color(SegmentColors(s)[1], SegmentColors(s)[2], p[1], p[2])

(***************************************************************************)
(* The input: star_positions.json.                                         *)
(***************************************************************************)
Fields == {"x", "y", "intensity"}
FileKinds == {"missing", "unparsable", "nostars", "list"}

\* records a file may hold: at the origin, off both axes, on the x axis
RecordPool ==
    { [x |-> 0, y |-> 0, intensity |-> 255],
      [x |-> -2, y |-> 1, intensity |-> 128],
      [x |-> 3, y |-> 0, intensity |-> 0] }

\* record r without its field f
Without(r, f) == [g \in (DOMAIN r) \ {f} |-> r[g]]

WellFormedLists == UNION { [1..n -> RecordPool] : n \in 0..(SubsampleCap + 1) }

\* the lists a file may hold: well formed, or with one record lacking one field
FileLists ==
    WellFormedLists \cup
    { [l EXCEPT ![k] = Without(l[k], f)] :
        <<l, k, f>> \in { t \in WellFormedLists \X (1..(SubsampleCap + 1)) \X Fields :
                            t[2] <= Len(t[1]) } }

Malformed(l) == \E k \in DOMAIN l : DOMAIN l[k] # Fields

(***************************************************************************)
(* Lines 37-48: the synthetic records.  angle and r are continuous, so no  *)
(* two records are equally far from the origin; the model draws the        *)
(* positions from three such layouts (0.5 <= r < 4) and every intensity    *)
(* from the ends of randint(150, 255), which excludes 255.                 *)
(***************************************************************************)
Layouts ==
    { << <<0, -1>>, <<1, 1>>, <<-1, 2>>, <<2, 0>>, <<2, -1>>,
         <<-2, 2>>, <<1, -3>>, <<3, 1>>, <<-3, 2>>, <<2, 3>> >>,
      << <<3, -2>>, <<-3, 1>>, <<1, 3>>, <<2, 2>>, <<-2, 1>>,
         <<2, 0>>, <<1, -2>>, <<-1, 1>>, <<0, 1>>, <<1, 0>> >>,
      << <<2, 1>>, <<0, -1>>, <<-3, 2>>, <<1, 1>>, <<1, -3>>,
         <<-2, 0>>, <<3, 1>>, <<-1, 2>>, <<2, -2>>, <<0, 3>> >> }

SyntheticIntensities == {150, 254}

SyntheticStars ==
    { [k \in 1..SyntheticCount |->
          [x |-> lay[k][1], y |-> lay[k][2], intensity |-> ints[k]]] :
      <<lay, ints>> \in Layouts \X [1..SyntheticCount -> SyntheticIntensities] }

\* Recovered with a handler that also catches the parse error
RecoveredAny(kind) == kind \in {"missing", "unparsable"}

\* line 37: the one exception the script catches
Recovered(kind) == kind = "missing"

\* the exception an unreadable file raises at lines 27-29
LoadException(kind) ==
    IF kind = "unparsable" THEN "JSONDecodeError" ELSE "KeyError"

\* line 32
NeedsSubsample(n) == n > SubsampleCap

\* np_random_choice with replace=True
np_random_choice_replace(n, k) == [1..k -> 1..n]

\* line 33: np.random.choice(n, k, replace=False), every outcome
np_random_choice(n, k) == { c \in [1..k -> 1..n] : Injective(c) }

\* ProgramOrder with the constellation lines drawn before the rotation
ProgramOrderSwapped ==
    << "load", "normalize", "create_stars", "title_in", "title_up", "add_stars",
       "reveal", "reveal_wait", "constellation", "lines_in", "lines_out",
       "rotate45", "panel_in", "panel_stats", "panel_out", "flash",
       "final_title", "rotate90", "fade_out", "ending_0", "ending_1",
       "ending_out", "done" >>

(***************************************************************************)
(* The order of the statements of construct().                             *)
(***************************************************************************)
ProgramOrder ==
    << "load", "normalize", "create_stars", "title_in", "title_up", "add_stars",
       "reveal", "reveal_wait", "rotate45", "constellation", "lines_in",
       "lines_out", "panel_in", "panel_stats", "panel_out", "flash",
       "final_title", "rotate90", "fade_out", "ending_0", "ending_1",
       "ending_out", "done" >>

Successor(p) ==
    LET k == CHOOSE j \in DOMAIN ProgramOrder : ProgramOrder[j] = p
    IN  ProgramOrder[k + 1]

Call(stage, call, what, idx) ==
    [stage |-> stage, call |-> call, what |-> what, idx |-> idx]

Init ==
    /\ pc = "load"
    /\ error = ""
    /\ file_kind \in FileKinds
    /\ data \in (IF file_kind = "list" THEN FileLists ELSE {<<>>})
    /\ file_malformed = (file_kind \in {"unparsable", "nostars"} \/ Malformed(data))
    /\ chosen = <<>>
    /\ stars = <<>>
    /\ scale_x = [n |-> 1, d |-> 1]
    /\ scale_y = [n |-> 1, d |-> 1]
    /\ target_opacities = <<>>
    /\ star_objects = <<>>
    /\ rot = 0
    /\ sorted_indices = <<>>
    /\ i = 0
    /\ bright_stars = <<>>
    /\ lines = <<>>
    /\ stats = <<>>
    /\ scene = {}
    /\ log = <<>>
    /\ probe = 0
    /\ shade = <<>>

(***************************************************************************)
(* Lines 25-48: load, subsample, or fall back to synthetic records.        *)
(***************************************************************************)
Load ==
    /\ pc = "load"
    /\ file_kind = "list"
    /\ IF NeedsSubsample(Len(data))
       THEN \E c \in np_random_choice(Len(data), SubsampleCap) :
               /\ chosen' = c
               /\ stars' = [k \in DOMAIN c |-> data[c[k]]]
       ELSE /\ chosen' = <<>>
            /\ stars' = data
    /\ pc' = Successor(pc)
    /\ UNCHANGED <<error, file_kind, file_malformed, data, scale_x, scale_y,
                   target_opacities, star_objects, rot, sorted_indices, i,
                   bright_stars, lines, stats, scene, log, probe, shade>>

LoadFallback ==
    /\ pc = "load"
    /\ file_kind # "list"
    /\ Recovered(file_kind)
    /\ stars' \in SyntheticStars
    /\ pc' = Successor(pc)
    /\ UNCHANGED <<error, file_kind, file_malformed, data, chosen, scale_x,
                   scale_y, target_opacities, star_objects, rot, sorted_indices,
                   i, bright_stars, lines, stats, scene, log, probe, shade>>

LoadError ==
    /\ pc = "load"
    /\ file_kind # "list"
    /\ ~Recovered(file_kind)
    /\ error' = LoadException(file_kind)
    /\ pc' = "aborted"
    /\ UNCHANGED <<file_kind, file_malformed, data, chosen, stars, scale_x,
                   scale_y, target_opacities, star_objects, rot, sorted_indices,
                   i, bright_stars, lines, stats, scene, log, probe, shade>>

(***************************************************************************)
(* Lines 50-61: the background colour and the normalisation factors.       *)
(* A record without 'x' or 'y' raises KeyError at line 54 or 55.           *)
(***************************************************************************)
Lacks(f) == \E k \in DOMAIN stars : f \notin DOMAIN stars[k]

\* AxisDivisor without abs: max(vs) or 1
AxisDivisorSigned(vs) ==
    LET m == SetMax({ vs[k] : k \in DOMAIN vs })
    IN  IF m = 0 THEN 1 ELSE m

\* lines 56-57: max(abs(v) for v in vs) or 1
AxisDivisor(vs) ==
    LET m == SetMax({ Abs(vs[k]) : k \in DOMAIN vs })
    IN  IF m = 0 THEN 1 ELSE m

\* lines 58-59: half_extent / divisor
ScaleFor(half_extent, vs) == [n |-> half_extent, d |-> AxisDivisor(vs)]

Normalize ==
    /\ pc = "normalize"
    /\ IF stars # <<>> /\ (Lacks("x") \/ Lacks("y"))
       THEN /\ error' = "KeyError"
            /\ pc' = "aborted"
            /\ UNCHANGED <<scale_x, scale_y>>
       ELSE /\ IF stars # <<>>
               THEN /\ scale_x' = ScaleFor(HalfExtentX, [k \in DOMAIN stars |-> stars[k].x])
                    /\ scale_y' = ScaleFor(HalfExtentY, [k \in DOMAIN stars |-> stars[k].y])
               ELSE /\ scale_x' = [n |-> 1, d |-> 1]
                    /\ scale_y' = [n |-> 1, d |-> 1]
            /\ pc' = Successor(pc)
            /\ error' = error
    /\ data' = <<>>
    /\ chosen' = <<>>
    /\ UNCHANGED <<file_kind, file_malformed, stars, target_opacities,
                   star_objects, rot, sorted_indices, i, bright_stars, lines,
                   stats, scene, log, probe, shade>>

(***************************************************************************)
(* Lines 63-100: one visual per star, hidden.  A record without            *)
(* 'intensity' raises KeyError at line 70.                                 *)
(***************************************************************************)
\* lines 68-69: v * scale
Scaled(v, scale) == [n |-> v * scale.n, d |-> scale.d]

\* line 72: 0.01 + intensity / 255 * 0.02, over 25500
Radius(intensity) == 255 + 2 * intensity

\* line 73: 0.4 + intensity / 255 * 0.6, over 2550
Brightness(intensity) == 1020 + 6 * intensity

\* line 88: brightness > 0.8
HasGlow(intensity) == Brightness(intensity) > 2040

StarObject(star) ==
    [ x |-> Scaled(star.x, scale_x),
      y |-> Scaled(star.y, scale_y),
      radius |-> Radius(star.intensity),
      color |-> intensity_to_color(4 * star.intensity),
      glow |-> HasGlow(star.intensity),
      opacity |-> 0 ]

CreateStars ==
    /\ pc = "create_stars"
    /\ IF Lacks("intensity")
       THEN /\ error' = "KeyError"
            /\ pc' = "aborted"
            /\ UNCHANGED <<target_opacities, star_objects>>
       ELSE /\ target_opacities' = [k \in DOMAIN stars |-> Brightness(stars[k].intensity)]
            /\ star_objects' = [k \in DOMAIN stars |-> StarObject(stars[k])]
            /\ pc' = Successor(pc)
            /\ error' = error
    /\ UNCHANGED <<file_kind, file_malformed, data, chosen, stars, scale_x,
                   scale_y, rot, sorted_indices, i, bright_stars, lines, stats,
                   scene, log, probe, shade>>

(***************************************************************************)
(* The engine's scene, as the set of the visuals it holds.  A group is     *)
(* held when its members are.                                              *)
(***************************************************************************)
Leaves(m) ==
    CASE m = "title_group" -> {<<"main_title", 0>>, <<"subtitle", 0>>}
      [] m = "star_objects" -> { <<"star", k>> : k \in DOMAIN star_objects }
      [] m = "lines" -> { <<"line", k>> : k \in DOMAIN lines }
      [] m = "panel" -> {<<"panel", 0>>, <<"panel_title", 0>>}
      [] m = "stats" -> { <<"stat", k>> : k \in 1..5 }
      [] m = "final_group" -> {<<"final_title", 0>>, <<"final_subtitle", 0>>}
      [] m = "ending_0" -> {<<"ending", 0>>}
      [] m = "ending_1" -> {<<"ending", 1>>}
      [] m = "ending" -> {<<"ending", 0>>, <<"ending", 1>>}

\* Scene.add, and Write and FadeIn, which add the visual they introduce
Introduced(s, m) == s \cup Leaves(m)

\* an animation of a visual (.animate, Rotate, the source of a Transform):
\* the visual is in the scene while and after it plays
Animated(s, m) == s \cup Leaves(m)

\* FadeOut: the visual is taken out of the scene when the animation ends
FadedOut(s, m) == s \ Leaves(m)

\* Transform(m, target): m takes the look of target and stays; target is
\* never added to the scene
Transformed(s, m, target) == s \cup Leaves(m)

(***************************************************************************)
(* Stages 1 and 2 (lines 106-117).                                         *)
(***************************************************************************)
TitleIn ==
    /\ pc = "title_in"
    /\ scene' = Introduced(scene, "title_group")
    /\ log' = log \o << Call(1, "play", "Write(main_title), Write(subtitle)", <<>>),
                        Call(1, "wait", "1", <<>>) >>
    /\ pc' = Successor(pc)
    /\ UNCHANGED <<error, file_kind, file_malformed, data, chosen, stars, scale_x,
                   scale_y, target_opacities, star_objects, rot, sorted_indices,
                   i, bright_stars, lines, stats, probe, shade>>

TitleUp ==
    /\ pc = "title_up"
    /\ scene' = Animated(scene, "title_group")
    /\ log' = Append(log, Call(2, "play", "title_group.animate", <<>>))
    /\ pc' = Successor(pc)
    /\ UNCHANGED <<error, file_kind, file_malformed, data, chosen, stars, scale_x,
                   scale_y, target_opacities, star_objects, rot, sorted_indices,
                   i, bright_stars, lines, stats, probe, shade>>

(***************************************************************************)
(* Stage 3 (lines 119-140).                                                *)
(***************************************************************************)
\* lines 123-126: np.hypot(x * scale_x, y * scale_y) squared, over the
\* denominator (scale_x.d * scale_y.d)^2 all stars share
Distance2(star) ==
    LET px == Scaled(star.x, scale_x)
        py == Scaled(star.y, scale_y)
    IN  (px.n * py.d) * (px.n * py.d) + (py.n * px.d) * (py.n * px.d)

\* line 127: np.argsort, which leaves the order of equal keys open: every
\* ordering of the positions S by ascending key
RECURSIVE argsort(_, _)
argsort(key, S) ==
    IF S = {} THEN {<<>>}
    ELSE LET least == { k \in S : \A j \in S : key[k] <= key[j] }
         IN  UNION { { <<k>> \o rest : rest \in argsort(key, S \ {k}) } : k \in least }

AddStars ==
    /\ pc = "add_stars"
    /\ scene' = Introduced(scene, "star_objects")
    /\ log' = Append(log, Call(3, "add", "star_objects", <<>>))
    /\ sorted_indices' \in argsort([k \in DOMAIN stars |-> Distance2(stars[k])], DOMAIN stars)
    /\ i' = 0
    /\ pc' = Successor(pc)
    /\ UNCHANGED <<error, file_kind, file_malformed, data, chosen, stars, scale_x,
                   scale_y, target_opacities, star_objects, rot, bright_stars,
                   lines, stats, probe, shade>>

\* line 131
group_size(n) == n \div num_groups

\* GroupEnd without the special case of the last group
GroupEndTruncated(g, n) == (g + 1) * group_size(n)

\* lines 133-134
GroupStart(g, n) == g * group_size(n)
GroupEnd(g, n) == IF g < num_groups - 1 THEN (g + 1) * group_size(n) ELSE n

\* line 137: sorted_indices[start:end] for group g
GroupOf(g) == Slice(sorted_indices, GroupStart(g, Len(stars)), GroupEnd(g, Len(stars)))

\* lines 135-139: one pass of the loop; the play returns when every star of
\* the group has reached its target opacity
Reveal ==
    /\ pc = "reveal"
    /\ LET idx == GroupOf(i)
       IN  /\ star_objects' =
                [k \in DOMAIN star_objects |->
                    IF k \in Range(idx)
                    THEN [star_objects[k] EXCEPT !.opacity = target_opacities[k]]
                    ELSE star_objects[k]]
           /\ log' = Append(log, Call(3, "play", "AnimationGroup", idx))
    /\ i' = i + 1
    /\ pc' = IF i + 1 = num_groups THEN Successor(pc) ELSE pc
    /\ UNCHANGED <<error, file_kind, file_malformed, data, chosen, stars, scale_x,
                   scale_y, target_opacities, rot, sorted_indices, bright_stars,
                   lines, stats, scene, probe, shade>>

\* line 139 with an empty group: releases of the engine differ, some play an
\* AnimationGroup without animations (Reveal), some raise ValueError
RevealRejected ==
    /\ pc = "reveal"
    /\ GroupOf(i) = <<>>
    /\ log' = Append(log, Call(3, "play", "AnimationGroup", <<>>))
    /\ error' = "ValueError"
    /\ pc' = "aborted"
    /\ UNCHANGED <<file_kind, file_malformed, data, chosen, stars, scale_x,
                   scale_y, target_opacities, star_objects, rot, sorted_indices,
                   i, bright_stars, lines, stats, scene, probe, shade>>

RevealWait ==
    /\ pc = "reveal_wait"
    /\ log' = Append(log, Call(3, "wait", "0.5", <<>>))
    /\ pc' = Successor(pc)
    /\ UNCHANGED <<error, file_kind, file_malformed, data, chosen, stars, scale_x,
                   scale_y, target_opacities, star_objects, rot, sorted_indices,
                   i, bright_stars, lines, stats, scene, probe, shade>>

(***************************************************************************)
(* Stage 4 (lines 142-144).                                                *)
(***************************************************************************)
Rotate45 ==
    /\ pc = "rotate45"
    /\ rot' = (rot + 1) % 8
    /\ scene' = Animated(scene, "star_objects")
    /\ log' = log \o << Call(4, "play", "Rotate(star_objects, PI/4)", <<>>),
                        Call(4, "wait", "0.5", <<>>) >>
    /\ pc' = Successor(pc)
    /\ UNCHANGED <<error, file_kind, file_malformed, data, chosen, stars, scale_x,
                   scale_y, target_opacities, star_objects, sorted_indices, i,
                   bright_stars, lines, stats, probe, shade>>

(***************************************************************************)
(* Stage 5 (lines 146-164).                                                *)
(***************************************************************************)
\* line 148: sorted(stars, key=intensity, reverse=True), a stable sort: the
\* positions of st by descending intensity, equal intensities in list order
RECURSIVE sorted_by_intensity(_, _)
sorted_by_intensity(st, S) ==
    IF S = {} THEN <<>>
    ELSE LET k == CHOOSE a \in S : \A b \in S :
                      \/ st[b].intensity < st[a].intensity
                      \/ st[b].intensity = st[a].intensity /\ a <= b
         IN  <<k>> \o sorted_by_intensity(st, S \ {k})

\* BrightStars cut one short: [:7]
BrightStarsShort(st) == Slice(sorted_by_intensity(st, DOMAIN st), 0, ConstellationSize - 1)

\* line 148: [:8]
BrightStars(st) == Slice(sorted_by_intensity(st, DOMAIN st), 0, ConstellationSize)

\* lines 151-154: the line from the k-th to the (k+1)-th bright star, drawn
\* between their normalised positions, hidden
Line(st, b, k) ==
    [ p1 |-> <<Scaled(st[b[k]].x, scale_x), Scaled(st[b[k]].y, scale_y)>>,
      p2 |-> <<Scaled(st[b[k + 1]].x, scale_x), Scaled(st[b[k + 1]].y, scale_y)>>,
      from |-> b[k],
      to |-> b[k + 1],
      opacity |-> 0 ]

\* line 150: range(len(bright_stars) - 1)
ConstellationLines(st, b) ==
    [k \in 1..(IF Len(b) > 0 THEN Len(b) - 1 ELSE 0) |-> Line(st, b, k)]

\* lines 147-156
Constellation ==
    /\ pc = "constellation"
    /\ IF stars # <<>>
       THEN LET b == BrightStars(stars)
                ls == ConstellationLines(stars, b)
            IN  /\ bright_stars' = b
                /\ lines' = ls
                /\ scene' = scene \cup { <<"line", k>> : k \in DOMAIN ls }
                /\ log' = log \o [k \in DOMAIN ls |-> Call(5, "add", "line", <<k>>)]
       ELSE UNCHANGED <<bright_stars, lines, scene, log>>
    /\ pc' = Successor(pc)
    /\ UNCHANGED <<error, file_kind, file_malformed, data, chosen, stars, scale_x,
                   scale_y, target_opacities, star_objects, rot, sorted_indices,
                   i, stats, probe, shade>>

\* lines 158-163
LinesIn ==
    /\ pc = "lines_in"
    /\ IF stars # <<>> /\ lines # <<>>
       THEN /\ lines' = [k \in DOMAIN lines |-> [lines[k] EXCEPT !.opacity = 1785]]
            /\ log' = log \o << Call(5, "play", "LaggedStart(line.animate)", <<>>),
                                Call(5, "wait", "1.5", <<>>) >>
       ELSE UNCHANGED <<lines, log>>
    /\ pc' = Successor(pc)
    /\ UNCHANGED <<error, file_kind, file_malformed, data, chosen, stars, scale_x,
                   scale_y, target_opacities, star_objects, rot, sorted_indices,
                   i, bright_stars, stats, scene, probe, shade>>

\* line 164
LinesOut ==
    /\ pc = "lines_out"
    /\ IF stars # <<>> /\ lines # <<>>
       THEN /\ scene' = FadedOut(scene, "lines")
            /\ log' = Append(log, Call(5, "play", "FadeOut(lines)", <<>>))
       ELSE UNCHANGED <<scene, log>>
    /\ pc' = Successor(pc)
    /\ UNCHANGED <<error, file_kind, file_malformed, data, chosen, stars, scale_x,
                   scale_y, target_opacities, star_objects, rot, sorted_indices,
                   i, bright_stars, lines, stats, probe, shade>>

(***************************************************************************)
(* Stage 6 (lines 166-186).                                                *)
(***************************************************************************)
\* lines 174-178; the mean is kept as the sum it divides by the count
Statistics(st) ==
    [ count |-> Len(st),
      max_intensity |-> SetMax({ st[k].intensity : k \in DOMAIN st }),
      sum_intensity |-> SeqSum([k \in DOMAIN st |-> st[k].intensity]),
      min_x |-> SetMin({ st[k].x : k \in DOMAIN st }),
      max_x |-> SetMax({ st[k].x : k \in DOMAIN st }),
      min_y |-> SetMin({ st[k].y : k \in DOMAIN st }),
      max_y |-> SetMax({ st[k].y : k \in DOMAIN st }) ]

PanelIn ==
    /\ pc = "panel_in"
    /\ IF stars # <<>>
       THEN /\ stats' = Statistics(stars)
            /\ scene' = Introduced(scene, "panel")
            /\ log' = Append(log, Call(6, "play", "FadeIn(panel), Write(panel_title)", <<>>))
       ELSE UNCHANGED <<stats, scene, log>>
    /\ pc' = Successor(pc)
    /\ UNCHANGED <<error, file_kind, file_malformed, data, chosen, stars, scale_x,
                   scale_y, target_opacities, star_objects, rot, sorted_indices,
                   i, bright_stars, lines, probe, shade>>

PanelStats ==
    /\ pc = "panel_stats"
    /\ IF stars # <<>>
       THEN /\ scene' = Introduced(scene, "stats")
            /\ log' = log \o << Call(6, "play", "LaggedStart(Write(stats))", <<>>),
                                Call(6, "wait", "3", <<>>) >>
       ELSE UNCHANGED <<scene, log>>
    /\ pc' = Successor(pc)
    /\ UNCHANGED <<error, file_kind, file_malformed, data, chosen, stars, scale_x,
                   scale_y, target_opacities, star_objects, rot, sorted_indices,
                   i, bright_stars, lines, stats, probe, shade>>

PanelOut ==
    /\ pc = "panel_out"
    /\ IF stars # <<>>
       THEN /\ scene' = FadedOut(FadedOut(scene, "panel"), "stats")
            /\ log' = Append(log, Call(6, "play", "FadeOut(panel, panel_title, stats)", <<>>))
       ELSE UNCHANGED <<scene, log>>
    /\ pc' = Successor(pc)
    /\ UNCHANGED <<error, file_kind, file_malformed, data, chosen, stars, scale_x,
                   scale_y, target_opacities, star_objects, rot, sorted_indices,
                   i, bright_stars, lines, stats, probe, shade>>

(***************************************************************************)
(* Stage 7 (lines 188-205).                                                *)
(***************************************************************************)
\* line 190: the first 12 positions whose intensity exceeds 200
bright_indices(st) ==
    LET Bright(k) == st[k].intensity > FlashThreshold
    IN  Slice(SelectSeq([k \in DOMAIN st |-> k], Bright), 0, FlashLimit)

\* lines 192-205: each flashed star ends on its target opacity; the wait of
\* line 205 is outside the test of line 189
Flash ==
    /\ pc = "flash"
    /\ LET idx == IF stars # <<>> THEN bright_indices(stars) ELSE <<>>
       IN  IF idx # <<>>
           THEN /\ star_objects' =
                     [k \in DOMAIN star_objects |->
                         IF k \in Range(idx)
                         THEN [star_objects[k] EXCEPT !.opacity = target_opacities[k]]
                         ELSE star_objects[k]]
                /\ log' = log \o << Call(7, "play", "AnimationGroup(flash)", idx),
                                    Call(7, "wait", "1", <<>>) >>
           ELSE /\ star_objects' = star_objects
                /\ log' = Append(log, Call(7, "wait", "1", <<>>))
    /\ pc' = Successor(pc)
    /\ UNCHANGED <<error, file_kind, file_malformed, data, chosen, stars, scale_x,
                   scale_y, target_opacities, rot, sorted_indices, i, bright_stars,
                   lines, stats, scene, probe, shade>>

(***************************************************************************)
(* Stage 8 (lines 207-214).                                                *)
(***************************************************************************)
FinalTitle ==
    /\ pc = "final_title"
    /\ scene' = Transformed(scene, "title_group", "final_group")
    /\ log' = Append(log, Call(8, "play", "Transform(title_group, final_group)", <<>>))
    /\ pc' = Successor(pc)
    /\ UNCHANGED <<error, file_kind, file_malformed, data, chosen, stars, scale_x,
                   scale_y, target_opacities, star_objects, rot, sorted_indices,
                   i, bright_stars, lines, stats, probe, shade>>

Rotate90 ==
    /\ pc = "rotate90"
    /\ rot' = (rot + 2) % 8
    /\ scene' = Animated(scene, "star_objects")
    /\ log' = log \o << Call(8, "play", "Rotate(star_objects, PI/2)", <<>>),
                        Call(8, "wait", "1", <<>>) >>
    /\ pc' = Successor(pc)
    /\ UNCHANGED <<error, file_kind, file_malformed, data, chosen, stars, scale_x,
                   scale_y, target_opacities, star_objects, sorted_indices, i,
                   bright_stars, lines, stats, probe, shade>>

(***************************************************************************)
(* Stage 9 (lines 216-232).                                                *)
(***************************************************************************)
\* lines 217-221: final_group is not in the scene: the play adds it, fades
\* it and takes it out again, with the stars
FadeOutAll ==
    /\ pc = "fade_out"
    /\ scene' = FadedOut(FadedOut(Animated(scene, "final_group"), "final_group"),
                         "star_objects")
    /\ log' = Append(log, Call(9, "play", "FadeOut(final_group), FadeOut(star_objects)", <<>>))
    /\ pc' = Successor(pc)
    /\ UNCHANGED <<error, file_kind, file_malformed, data, chosen, stars, scale_x,
                   scale_y, target_opacities, star_objects, rot, sorted_indices,
                   i, bright_stars, lines, stats, probe, shade>>

Ending0 ==
    /\ pc = "ending_0"
    /\ scene' = Introduced(scene, "ending_0")
    /\ log' = log \o << Call(9, "play", "FadeIn(ending[0])", <<>>),
                        Call(9, "wait", "0.5", <<>>) >>
    /\ pc' = Successor(pc)
    /\ UNCHANGED <<error, file_kind, file_malformed, data, chosen, stars, scale_x,
                   scale_y, target_opacities, star_objects, rot, sorted_indices,
                   i, bright_stars, lines, stats, probe, shade>>

Ending1 ==
    /\ pc = "ending_1"
    /\ scene' = Introduced(scene, "ending_1")
    /\ log' = log \o << Call(9, "play", "FadeIn(ending[1])", <<>>),
                        Call(9, "wait", "3", <<>>) >>
    /\ pc' = Successor(pc)
    /\ UNCHANGED <<error, file_kind, file_malformed, data, chosen, stars, scale_x,
                   scale_y, target_opacities, star_objects, rot, sorted_indices,
                   i, bright_stars, lines, stats, probe, shade>>

EndingOut ==
    /\ pc = "ending_out"
    /\ scene' = FadedOut(scene, "ending")
    /\ log' = Append(log, Call(9, "play", "FadeOut(ending)", <<>>))
    /\ pc' = Successor(pc)
    /\ UNCHANGED <<error, file_kind, file_malformed, data, chosen, stars, scale_x,
                   scale_y, target_opacities, star_objects, rot, sorted_indices,
                   i, bright_stars, lines, stats, probe, shade>>

Next ==
    \/ Load \/ LoadFallback \/ LoadError
    \/ Normalize \/ CreateStars
    \/ TitleIn \/ TitleUp
    \/ AddStars \/ Reveal \/ RevealRejected \/ RevealWait
    \/ Rotate45
    \/ Constellation \/ LinesIn \/ LinesOut
    \/ PanelIn \/ PanelStats \/ PanelOut
    \/ Flash
    \/ FinalTitle \/ Rotate90
    \/ FadeOutAll \/ Ending0 \/ Ending1 \/ EndingOut

Spec == Init /\ [][Next]_vars

(***************************************************************************)
(* intensity_to_color called on its own, twice on the same argument: any   *)
(* intensity from 2 below 0 to 2 above 255, in quarter units.              *)
(***************************************************************************)
InitColor ==
    /\ pc = "color"
    /\ error = ""
    /\ file_kind = "missing"
    /\ file_malformed = FALSE
    /\ data = <<>>
    /\ chosen = <<>>
    /\ stars = <<>>
    /\ scale_x = [n |-> 1, d |-> 1]
    /\ scale_y = [n |-> 1, d |-> 1]
    /\ target_opacities = <<>>
    /\ star_objects = <<>>
    /\ rot = 0
    /\ sorted_indices = <<>>
    /\ i = 0
    /\ bright_stars = <<>>
    /\ lines = <<>>
    /\ stats = <<>>
    /\ scene = {}
    /\ log = <<>>
    /\ probe \in (-8)..(4 * MaxIntensity + 8)
    /\ shade = <<>>

ColorCall ==
    /\ pc = "color"
    /\ Len(shade) < 2
    /\ shade' = Append(shade, intensity_to_color(probe))
    /\ UNCHANGED <<pc, error, file_kind, file_malformed, data, chosen, stars,
                   scale_x, scale_y, target_opacities, star_objects, rot,
                   sorted_indices, i, bright_stars, lines, stats, scene, log, probe>>

NextColor == ColorCall

SpecColor == InitColor /\ [][NextColor]_vars

(***************************************************************************)
(* Vocabulary of the properties.                                           *)
(***************************************************************************)
Running == pc \in Range(ProgramOrder)
PcIndex(p) == CHOOSE j \in DOMAIN ProgramOrder : ProgramOrder[j] = p
\* construct() has run the statement p and has not been ended by an exception
Past(p) == Running /\ PcIndex(pc) > PcIndex(p)

PlaysOf(stage) == SelectSeq(log, LAMBDA c : c.stage = stage /\ c.call = "play")
StagesPlayed == { log[k].stage : k \in { j \in DOMAIN log : log[j].call = "play" } }
StagesCalled == { log[k].stage : k \in DOMAIN log }

RECURSIVE Flatten(_)
Flatten(ss) == IF ss = <<>> THEN <<>> ELSE Head(ss) \o Flatten(Tail(ss))

IntensityOf(k) == stars[k].intensity

\* fractions with positive denominators
FracEq(a, b) == a.n * b.d = b.n * a.d
FracNeg(a) == [n |-> -a.n, d |-> a.d]
AtOrigin(p) == p[1].n = 0 /\ p[2].n = 0
\* p turned by a quarter turn
Quarter(p) == <<FracNeg(p[2]), p[1]>>
RECURSIVE Quarters(_, _)
Quarters(p, k) == IF k = 0 THEN p ELSE Quarters(Quarter(p), k - 1)
\* whether p turned by r eighths of a turn about the origin is the point q:
\* an odd number of eighths takes a point with rational coordinates to one
\* with rational coordinates only at the origin
SamePlace(p, r, q) ==
    IF r % 2 = 0
    THEN LET t == Quarters(p, (r % 8) \div 2)
         IN  FracEq(t[1], q[1]) /\ FracEq(t[2], q[2])
    ELSE AtOrigin(p) /\ AtOrigin(q)

StarPlace(k) == <<star_objects[k].x, star_objects[k].y>>

(***************************************************************************)
(* C1.  The calls reach the engine in the order of the stages 1..9: the    *)
(* stage numbers of the calls never decrease, so no stage is reordered,    *)
(* repeated after a later one or revisited; a run that completes has       *)
(* played stages 1, 2, 3, 4, 8 and 9 (only 5, 6 and 7 can be missing) and  *)
(* ended on a play of stage 9.                                             *)
(***************************************************************************)
C1_StageOrder ==
    /\ \A a, b \in DOMAIN log : a < b => log[a].stage <= log[b].stage
    /\ StagesCalled \subseteq 1..9
    /\ pc = "done" =>
         /\ {1, 2, 3, 4, 8, 9} \subseteq StagesPlayed
         /\ log[Len(log)].stage = 9
         /\ log[Len(log)].call = "play"

C1_Witness == pc = "done" /\ StagesPlayed = 1..9

(***************************************************************************)
(* C2.  The star visuals enter the scene hidden and only after the play    *)
(* of stage 2.  Stage 3 plays exactly six groups; together they hold       *)
(* every star exactly once, in ascending order of normalised distance      *)
(* from the origin; the first five hold floor(n/6) stars and the sixth     *)
(* the other n - 5*floor(n/6).  From the end of stage 3 on every star has  *)
(* its own target opacity, and position k of the visuals, of the target    *)
(* opacities and of the records is the same star.                          *)
(***************************************************************************)
C2_StagedReveal ==
    LET n == Len(stars)
        groups == [k \in DOMAIN PlaysOf(3) |-> PlaysOf(3)[k].idx]
        order == Flatten(groups)
    IN  /\ Leaves("star_objects") \cap scene # {} => PlaysOf(2) # <<>>
        /\ (Running /\ PcIndex(pc) <= PcIndex("reveal") /\ i = 0) =>
              \A k \in DOMAIN star_objects : star_objects[k].opacity = 0
        /\ Past("create_stars") =>
              /\ Len(star_objects) = n /\ Len(target_opacities) = n
              /\ \A k \in 1..n :
                    /\ target_opacities[k] = Brightness(IntensityOf(k))
                    /\ FracEq(star_objects[k].x, Scaled(stars[k].x, scale_x))
                    /\ FracEq(star_objects[k].y, Scaled(stars[k].y, scale_y))
                    /\ star_objects[k].radius = Radius(IntensityOf(k))
        /\ Past("reveal") =>
              /\ Len(groups) = 6
              /\ \A g \in 1..5 : Len(groups[g]) = n \div 6
              /\ Len(groups[6]) = n - 5 * (n \div 6)
              /\ Len(order) = n
              /\ Range(order) = 1..n
              /\ \A a, b \in 1..n :
                    a < b => Distance2(stars[order[a]]) <= Distance2(stars[order[b]])
              /\ \A k \in 1..n : star_objects[k].opacity = target_opacities[k]

C2_Witness ==
    /\ pc = "reveal_wait"
    /\ Len(stars) >= 7
    /\ \E a, b \in DOMAIN sorted_indices : a < b /\ sorted_indices[a] > sorted_indices[b]
    /\ \E a, b \in DOMAIN stars : target_opacities[a] # target_opacities[b]

(***************************************************************************)
(* C3.  After the load of a file: a list of more than the cap is cut to    *)
(* exactly the cap, every kept record is the record at a position of the   *)
(* loaded list, unchanged, and no position is taken twice; a list of at    *)
(* most the cap is used whole, in its order.                               *)
(***************************************************************************)
C3_Subsample ==
    (pc = "normalize" /\ file_kind = "list") =>
        IF Len(data) > SubsampleCap
        THEN /\ Len(stars) = SubsampleCap
             /\ Len(chosen) = SubsampleCap
             /\ \A k \in DOMAIN chosen : chosen[k] \in DOMAIN data
             /\ \A a, b \in DOMAIN chosen : a # b => chosen[a] # chosen[b]
             /\ \A k \in DOMAIN stars : stars[k] = data[chosen[k]]
        ELSE stars = data

C3_Witness ==
    /\ pc = "normalize"
    /\ Len(data) = SubsampleCap + 1
    /\ chosen[1] > chosen[2]
    /\ \E a, b \in DOMAIN data : data[a] # data[b]

MaxAbsIs(axis, half_extent) ==
    /\ \E k \in DOMAIN star_objects :
          Abs(star_objects[k][axis].n) = half_extent * star_objects[k][axis].d
    /\ \A k \in DOMAIN star_objects :
          Abs(star_objects[k][axis].n) <= half_extent * star_objects[k][axis].d

C5_AsClaimed ==
    (Past("create_stars") /\ stars # <<>>) =>
        MaxAbsIs("x", 4) /\ MaxAbsIs("y", 2)

(***************************************************************************)
(* C5, amended.  For a non-empty record set and each axis: when some       *)
(* record has a non-zero coordinate on the axis, the largest absolute      *)
(* normalised coordinate is the half-extent (4 for x, 2 for y); when all   *)
(* are zero, the divisor is 1 and every normalised coordinate is 0.  One   *)
(* pair of factors, computed from the whole set, scales every record.      *)
(***************************************************************************)
C5_Normalization ==
    (Past("create_stars") /\ stars # <<>>) =>
        /\ IF \E k \in DOMAIN stars : stars[k].x # 0
           THEN MaxAbsIs("x", 4)
           ELSE scale_x.d = 1 /\ \A k \in DOMAIN stars : star_objects[k].x.n = 0
        /\ IF \E k \in DOMAIN stars : stars[k].y # 0
           THEN MaxAbsIs("y", 2)
           ELSE scale_y.d = 1 /\ \A k \in DOMAIN stars : star_objects[k].y.n = 0
        /\ scale_x.n = 4 /\ scale_y.n = 2
        /\ scale_x.d > 0 /\ scale_y.d > 0
        /\ \A k \in DOMAIN stars :
              /\ star_objects[k].x = [n |-> stars[k].x * scale_x.n, d |-> scale_x.d]
              /\ star_objects[k].y = [n |-> stars[k].y * scale_y.n, d |-> scale_y.d]

C5_Witness ==
    /\ Past("create_stars")
    /\ \E a, b \in DOMAIN stars : Abs(stars[a].x) > Abs(stars[b].x) /\ stars[b].x # 0
    /\ \E a \in DOMAIN stars : stars[a].y # 0
    /\ scale_x.d > 1

(***************************************************************************)
(* C6, as claimed.  With an empty record list in the file the run ends     *)
(* without an exception and no play of stage 3, 4, 5, 6 or 7 is issued.    *)
(***************************************************************************)
C6_EmptySetPlaysTitlesOnly ==
    (file_kind = "list" /\ stars = <<>>) =>
        /\ error = ""
        /\ StagesPlayed \cap (3..7) = {}

C8_SceneClearedAtClose ==
    /\ Past("fade_out") =>
          scene \cap (Leaves("title_group") \cup Leaves("final_group")
                        \cup Leaves("star_objects")) = {}
    /\ pc = "done" => scene = {}

(***************************************************************************)
(* C9.  Each call of intensity_to_color clamps t to [0, 1]; mixes the two  *)
(* control colours of one segment (RED-ORANGE below 0.30, ORANGE-YELLOW    *)
(* below 0.60, YELLOW-WHITE below 0.85, WHITE-BLUE from there) with a      *)
(* parameter in [0, 1]; gives the same colour on a second call; at 0.30,   *)
(* 0.60 and 0.85 gives the control colour (ORANGE, YELLOW, WHITE) that     *)
(* the lower segment reaches at parameter 1; and nowhere jumps: a quarter  *)
(* unit of intensity moves no weight by more than 10/1530.                 *)
(***************************************************************************)
Pure(c) == [k \in ControlColors |-> IF k = c THEN 1530 ELSE 0]

C9_ColorMapping ==
    \A k \in DOMAIN shade :
        LET c == shade[k]
            t == IF probe < 0 THEN 0 ELSE IF probe > 1020 THEN 1020 ELSE probe
            pair == IF t < 306 THEN <<"RED", "ORANGE">>
                    ELSE IF t < 612 THEN <<"ORANGE", "YELLOW">>
                    ELSE IF t < 867 THEN <<"YELLOW", "WHITE">>
                    ELSE <<"WHITE", "BLUE">>
        IN  /\ c = shade[1]
            /\ \A col \in ControlColors : c[col] >= 0 /\ c[col] <= 1530
            /\ c[pair[1]] + c[pair[2]] = 1530
            /\ \A col \in ControlColors \ {pair[1], pair[2]} : c[col] = 0
            /\ probe <= 0 => c = Pure("RED")
            /\ probe >= 1020 => c = Pure("BLUE")
            /\ probe = 306 => c = Pure("ORANGE") /\ c = interpolate_color("RED", "ORANGE", 1, 1)
            /\ probe = 612 => c = Pure("YELLOW") /\ c = interpolate_color("ORANGE", "YELLOW", 1, 1)
            /\ probe = 867 => c = Pure("WHITE") /\ c = interpolate_color("YELLOW", "WHITE", 1, 1)
            /\ \A col \in ControlColors :
                  Abs(intensity_to_color(probe + 1)[col] - c[col]) <= 10

C9_Witness == Len(shade) = 2 /\ probe = 612

(***************************************************************************)
(* C10, as claimed.  While the lines of stage 5 are shown, each end of     *)
(* each line is where the star it connects is displayed, that is, at the   *)
(* star's place after the rotation of stage 4.                             *)
(***************************************************************************)
C10_LineEndsOnStars ==
    \A k \in DOMAIN lines :
        (<<"line", k>> \in scene /\ lines[k].opacity > 0) =>
            /\ SamePlace(StarPlace(lines[k].from), rot, lines[k].p1)
            /\ SamePlace(StarPlace(lines[k].to), rot, lines[k].p2)

====
